---- MODULE Spec2Model ----
(***************************************************************************)
(* Rate limiting of discord-cocobot (utils/rate_limit.py, utils/database.py) *)
(* as a state machine: the in-memory sliding-window tracker, the rate_limits *)
(* table behind the fixed-window limiter, and the hybrid limiter that        *)
(* composes them.  Time is a discrete clock; time.time() and                 *)
(* datetime.utcnow() read the same clock.  The body of                       *)
(* DatabaseRateLimiter.is_allowed is modelled as run with the session that   *)
(* the with-statement binds to db.  The module also holds check_rate_limit,  *)
(* the reset_limit methods, CommandRateLimiter, and the CacheManager of      *)
(* utils/cache.py with its in-memory and Redis backends.                     *)
(***************************************************************************)
EXTENDS Integers, Sequences, FiniteSets, TLC

\* ---------------------------------------------------------------- bounds
MaxTime == 4
MaxRequests == 2
MaxWindow == 3
MaxCmdTime == 1
MaxTtl == 2
MaxCount == 3
MaxLog == 4
MaxReminders == 2

Identifiers == {"user:1"}
Resources == {"command:x"}
MaxRequestsSet == 0..MaxRequests
WindowSet == 2..MaxWindow

VARIABLES
    now,        \* the wall clock read by time.time() / datetime.utcnow()
    limits,     \* InMemoryRateLimiter.limits: key -> [requests, window_start]
    rows,       \* the rate_limits table: a set of RateLimit rows
    result,     \* what the last call returned (or raised)
    memLog,     \* history: key -> times of the checks the in-memory tracker admitted
    dbAdmits,   \* history: DB admissions since the row's window was created or reset
    hybAdmits,  \* history: hybrid (use_db) admissions in the row's current window
    max_requests,   \* the limit every check of the run passes as max_requests
    window_seconds, \* the window every check of the run passes as window_seconds
    lock,       \* InMemoryRateLimiter._lock: the thread holding it, or Free
    threads,    \* each thread's position inside InMemoryRateLimiter.is_allowed
    session,    \* each process's position inside DatabaseRateLimiter.is_allowed
    api,        \* what the last call of check_rate_limit returned (or raised)
    dbLog,      \* history: times of the checks the database limiter admitted
    cmdLog,     \* history: per (user_id, command_name), the admitted command checks
    memory_cache,   \* CacheManager.memory_cache: key -> [value, expires_at]
    redis,      \* the keys held by the Redis server behind CacheManager.redis_client
    use_redis,  \* CacheManager.use_redis
    cres,       \* what the last CacheManager call returned
    written,    \* history: per cache key, the last write (set / increment) still standing
    beforeReset,    \* history: how the check ended that the latest reset followed at once
    tate_cooldowns, \* Cocobot.tate_cooldowns: user id -> time of the last 'tate' GIF
    reminded_users, \* Cocobot.reminded_users: the user ids reminded in this process
    visa_reminders, \* the visa reminder table: the user_discord_id of its rows
    handlers,   \* each on_message invocation's position (idle, or awaiting its send)
    bot_out,    \* what the last on_message step sent and whether it processed commands
    reminders   \* history: per user, the reminders sent since the last administrative reset

\* The state of the cache manager.
cacheVars == <<memory_cache, redis, use_redis, cres, written>>

\* The state of the bot's message handler.
botVars == <<tate_cooldowns, reminded_users, visa_reminders, handlers, bot_out,
             reminders>>

\* The state outside the rate limiter's own tables and positions.
rest == <<api, dbLog, cmdLog, beforeReset, cacheVars, botVars>>

vars == <<now, limits, rows, result, memLog, dbAdmits, hybAdmits,
          max_requests, window_seconds, lock, threads, session, rest>>

Max(a, b) == IF a >= b THEN a ELSE b

\* ------------------------------------------------- InMemoryRateLimiter
\* key = f"{identifier}:{resource}"
Key(identifier, resource) == identifier \o ":" \o resource

\* Mutant: the comparison lets a request that is exactly window_seconds old stay.
PruneInclusive(requests, window_start) ==
    SelectSeq(requests, LAMBDA req_time : req_time >= window_start)

\* [req_time for req_time in requests if req_time > window_start]
Prune(requests, window_start) ==
    SelectSeq(requests, LAMBDA req_time : req_time > window_start)

\* if key not in self.limits: self.limits[key] = {'requests': [], 'window_start': now}
EnsureKey(lim, key, t) ==
    IF key \in DOMAIN lim THEN lim
    ELSE (key :> [requests |-> <<>>, window_start |-> t]) @@ lim

\* len(self.limits[key]['requests']) >= max_requests
MemLimitExceeded(requests, max_req) == Len(requests) >= max_req

\* Mutant: the wait is computed from the newest request instead of the oldest.
MemRetryAfterNewest(requests, window, t) ==
    Max(0, requests[Len(requests)] + window - t)

\* oldest_request = requests[0]; max(0, oldest_request + window_seconds - now)
MemRetryAfter(requests, window, t) == Max(0, requests[1] + window - t)

\* Mutant: a rejected check is recorded in the list as well.
MemIsAllowedRecordsRejected(lim, identifier, resource, max_req, window, t) ==
    LET key == Key(identifier, resource)
        window_start == t - window
        lim1 == EnsureKey(lim, key, t)
        requests == Prune(lim1[key].requests, window_start)
        lim2 == [lim1 EXCEPT ![key].requests = Append(requests, t)]
    IN  IF MemLimitExceeded(requests, max_req)
        THEN IF requests = <<>>
             THEN [limits |-> lim2, outcome |-> "IndexError",
                   allowed |-> FALSE, retry_after |-> 0]
             ELSE [limits |-> lim2, outcome |-> "returned",
                   allowed |-> FALSE,
                   retry_after |-> MemRetryAfter(requests, window, t)]
        ELSE [limits |-> lim2,
              outcome |-> "returned", allowed |-> TRUE, retry_after |-> 0]

\* The body of InMemoryRateLimiter.is_allowed under the lock, at clock value t.
\* Returns the new limits map and what the call returns; requests[0] on an
\* empty list raises IndexError.
MemIsAllowed(lim, identifier, resource, max_req, window, t) ==
    LET key == Key(identifier, resource)
        window_start == t - window
        lim1 == EnsureKey(lim, key, t)
        requests == Prune(lim1[key].requests, window_start)
        lim2 == [lim1 EXCEPT ![key].requests = requests]
    IN  IF MemLimitExceeded(requests, max_req)
        THEN IF requests = <<>>
             THEN [limits |-> lim2, outcome |-> "IndexError",
                   allowed |-> FALSE, retry_after |-> 0]
             ELSE [limits |-> lim2, outcome |-> "returned",
                   allowed |-> FALSE,
                   retry_after |-> MemRetryAfter(requests, window, t)]
        ELSE [limits |-> [lim2 EXCEPT ![key].requests = Append(requests, t)],
              outcome |-> "returned", allowed |-> TRUE, retry_after |-> 0]

\* ------------------------------------------------- DatabaseRateLimiter
NoRow == [id |-> 0, identifier |-> "", resource |-> "",
          requests_count |-> 0, reset_at |-> 0]

\* Integer primary key of a new row: one more than the largest id in use.
NewId(table) ==
    IF table = {} THEN 1
    ELSE 1 + CHOOSE m \in {r.id : r \in table} : \A r \in table : r.id <= m

\* db.query(RateLimit).filter(identifier == ..., resource == ...).first():
\* the rows .first() may return; None (NoRow) when no row matches.
Query(table, identifier, resource) ==
    LET matching == {r \in table : r.identifier = identifier /\ r.resource = resource}
    IN  IF matching = {} THEN {NoRow} ELSE matching

\* Mutant: the UPDATE adds to the count the row holds (count = count + 1).
SetCountInPlace(table, rate_limit, count) ==
    {IF r.id = rate_limit.id
     THEN [r EXCEPT !.requests_count = r.requests_count + 1] ELSE r :
        r \in table}

\* rate_limit.<column> = value; db.commit(): UPDATE of the assigned columns of
\* the loaded object's row, found by primary key.
SetCount(table, rate_limit, count) ==
    {IF r.id = rate_limit.id THEN [r EXCEPT !.requests_count = count] ELSE r :
        r \in table}

SetCountAndReset(table, rate_limit, count, reset_at) ==
    {IF r.id = rate_limit.id
     THEN [r EXCEPT !.requests_count = count, !.reset_at = reset_at] ELSE r :
        r \in table}

\* datetime.utcnow() > rate_limit.reset_at
WindowExpired(rate_limit, t) == t > rate_limit.reset_at

\* Mutant: the limit test is off by one and lets one more request through.
DbLimitExceededStrict(rate_limit, max_req) == rate_limit.requests_count > max_req

\* rate_limit.requests_count >= max_requests
DbLimitExceeded(rate_limit, max_req) == rate_limit.requests_count >= max_req

\* elapsed = utcnow() - (reset_at - window_seconds); max(0, window_seconds - elapsed)
DbRetryAfter(rate_limit, window, t) ==
    Max(0, window - (t - (rate_limit.reset_at - window)))

\* The body of DatabaseRateLimiter.is_allowed once the query returned
\* rate_limit, at clock value t.
DbIsAllowed(table, rate_limit, identifier, resource, max_req, window, t) ==
    IF rate_limit = NoRow
    THEN [rows |-> table \cup {[id |-> NewId(table), identifier |-> identifier,
                                 resource |-> resource, requests_count |-> 1,
                                 reset_at |-> t + window]},
          branch |-> "create", allowed |-> TRUE, retry_after |-> 0]
    ELSE IF WindowExpired(rate_limit, t)
    THEN [rows |-> SetCountAndReset(table, rate_limit, 1, t + window),
          branch |-> "reset", allowed |-> TRUE, retry_after |-> 0]
    ELSE IF DbLimitExceeded(rate_limit, max_req)
    THEN [rows |-> table, branch |-> "exceeded", allowed |-> FALSE,
          retry_after |-> DbRetryAfter(rate_limit, window, t)]
    ELSE [rows |-> SetCount(table, rate_limit, rate_limit.requests_count + 1),
          branch |-> "increment", allowed |-> TRUE, retry_after |-> 0]

\* ---------------------------------------------------- HybridRateLimiter
NotCalled == [branch |-> "not_called", allowed |-> FALSE, retry_after |-> 0]

\* Mutant: the database limiter is consulted whatever the tracker said.
HybridAlwaysConsultsDb(mem, use_db) == mem.outcome = "returned" /\ use_db

\* HybridRateLimiter.is_allowed: the in-memory tracker first, the database
\* limiter only when the tracker admitted and use_db is set.
HybridConsultsDb(mem, use_db) == mem.outcome = "returned" /\ mem.allowed /\ use_db

\* Mutant: a rejection by the database limiter is dropped.
HybridReturnIgnoresDb(mem, db, use_db) ==
    IF mem.outcome # "returned"
    THEN [outcome |-> mem.outcome, allowed |-> FALSE, retry_after |-> 0]
    ELSE IF ~mem.allowed
    THEN [outcome |-> "returned", allowed |-> FALSE, retry_after |-> mem.retry_after]
    ELSE [outcome |-> "returned", allowed |-> TRUE, retry_after |-> 0]

\* if not mem_allowed: return False, mem_retry_after
\* if use_db and not db_allowed: return False, db_retry_after
\* return True, 0.0
HybridReturn(mem, db, use_db) ==
    IF mem.outcome # "returned"
    THEN [outcome |-> mem.outcome, allowed |-> FALSE, retry_after |-> 0]
    ELSE IF ~mem.allowed
    THEN [outcome |-> "returned", allowed |-> FALSE, retry_after |-> mem.retry_after]
    ELSE IF use_db /\ ~db.allowed
    THEN [outcome |-> "returned", allowed |-> FALSE, retry_after |-> db.retry_after]
    ELSE [outcome |-> "returned", allowed |-> TRUE, retry_after |-> 0]

\* ------------------------------------------------------------- history
Keys == {Key(i, r) : i \in Identifiers, r \in Resources}

Threads == {"t1", "t2"}
Procs == {"p1", "p2"}
Free == "free"
Idle == [pc |-> "idle", identifier |-> "", resource |-> "", now |-> 0]
NoSession == [pc |-> "idle", identifier |-> "", resource |-> "", rate_limit |-> NoRow]

NoResult ==
    [op |-> "none", identifier |-> "", resource |-> "", use_db |-> FALSE,
     at |-> 0, outcome |-> "none", allowed |-> FALSE, retry_after |-> 0,
     mem_allowed |-> FALSE, mem_retry_after |-> 0,
     db_branch |-> "not_called", db_allowed |-> FALSE, db_retry_after |-> 0]

\* No call of check_rate_limit yet.
NoApi ==
    [op |-> "none", raise_exception |-> FALSE, outcome |-> "none",
     value |-> FALSE, exc_retry_after |-> 0, exc_resource |-> ""]

\* The cached values: numbers, and values that are not numbers.
Number(n) == [num |-> TRUE, v |-> n]
Text(n) == [num |-> FALSE, v |-> n]

\* No call of a CacheManager method yet.  A method returns a value of one of
\* three kinds: "none" (None), "bool" and "value" (a stored value or a number).
NoCacheResult ==
    [op |-> "none", key |-> "", at |-> 0, arg |-> Number(0), ttl |-> 0,
     raised |-> FALSE, outcome |-> "none",
     kind |-> "none", bool |-> FALSE, value |-> Number(0)]

\* No write to the cache yet: per key the last set still standing (and
\* whether an increment came after it), the last write still standing, and
\* the keys deleted or cleared and not set since.
NoWrites == [set |-> <<>>, entry |-> <<>>, gone |-> <<>>]

\* The users and commands of the command checks.
UserIds == {"1"}
CommandNames == {"x"}

\* No command check yet.
NoCommandLog ==
    [mem |-> [p \in UserIds \X CommandNames |-> <<>>],
     db |-> [p \in UserIds \X CommandNames |-> 0],
     paths |-> {},
     last |-> [via |-> "none", user_id |-> "", command_name |-> "", max |-> 0]]

\* A DB check opens a new window when it creates the row or resets it.
OpensWindow(db) == db.branch \in {"create", "reset"}

Count(n, db, counted) ==
    IF OpensWindow(db) THEN (IF counted THEN 1 ELSE 0)
    ELSE IF counted THEN n + 1 ELSE n

\* The users who write messages, and the bot's own user (self.user).
Users == {1, 2}
Self == 0

\* The on_message invocations that can be in flight together.
Handlers == {"h1", "h2"}
IdleHandler == [pc |-> "idle", author |-> Self]

\* What on_message reads of a message: its author's id, whether its channel
\* is named "visa", and whether its content holds 'visa', is '!cocobot' or
\* mentions the bot, matches the 'tate' pattern, names @Nal.
NoMessage ==
    [author |-> Self, visa_channel |-> FALSE, visa |-> FALSE, cocobot |-> FALSE,
     tate |-> FALSE, nal |-> FALSE]

\* No on_message yet.  sent lists the messages the step sent to the channel.
NoBotOutput ==
    [op |-> "none", m |-> NoMessage, at |-> 0, sent |-> <<>>,
     process_commands |-> FALSE]

\* ------------------------------------------------------------- actions
InitState ==
    /\ now = 0
    /\ limits = <<>>
    /\ rows = {}
    /\ result = NoResult
    /\ memLog = [k \in Keys |-> <<>>]
    /\ dbAdmits = 0
    /\ hybAdmits = 0
    /\ lock = Free
    /\ threads = [th \in Threads |-> Idle]
    /\ session = [p \in Procs |-> NoSession]
    /\ api = NoApi
    /\ dbLog = <<>>
    /\ cmdLog = NoCommandLog
    /\ memory_cache = <<>>
    /\ redis = <<>>
    /\ cres = NoCacheResult
    /\ written = NoWrites
    /\ beforeReset = "none"
    /\ tate_cooldowns = <<>>
    /\ reminded_users = {}
    /\ visa_reminders = {}
    /\ handlers = [h \in Handlers |-> IdleHandler]
    /\ bot_out = NoBotOutput
    /\ reminders = [u \in Users |-> 0]

\* Every run passes one max_requests and one window_seconds to its checks.
Init ==
    /\ InitState
    /\ max_requests \in MaxRequestsSet
    /\ window_seconds \in WindowSet
    /\ use_redis = FALSE

\* The clock advances.
Tick ==
    /\ now < MaxTime
    /\ now' = now + 1
    /\ UNCHANGED <<limits, rows, result, memLog, dbAdmits, hybAdmits,
                   max_requests, window_seconds, lock, threads, session, rest>>

\* HybridRateLimiter.is_allowed(identifier, resource, max_requests,
\* window_seconds, use_db)
HybridIsAllowed(identifier, resource, use_db) ==
    \E rate_limit \in Query(rows, identifier, resource) :
        LET mem == MemIsAllowed(limits, identifier, resource,
                                max_requests, window_seconds, now)
            consult == HybridConsultsDb(mem, use_db)
            db == IF consult
                  THEN DbIsAllowed(rows, rate_limit, identifier, resource,
                                   max_requests, window_seconds, now)
                  ELSE NotCalled
            ret == HybridReturn(mem, db, use_db)
        IN  /\ limits' = mem.limits
            /\ rows' = IF consult THEN db.rows ELSE rows
            /\ result' =
                 [op |-> "hybrid", identifier |-> identifier, resource |-> resource,
                  use_db |-> use_db, at |-> now,
                  outcome |-> ret.outcome, allowed |-> ret.allowed,
                  retry_after |-> ret.retry_after,
                  mem_allowed |-> mem.allowed,
                  mem_retry_after |-> mem.retry_after,
                  db_branch |-> db.branch, db_allowed |-> db.allowed,
                  db_retry_after |-> db.retry_after]
            /\ memLog' = IF mem.allowed
                         THEN [memLog EXCEPT ![Key(identifier, resource)] =
                                   Append(@, now)]
                         ELSE memLog
            /\ dbAdmits' = IF consult THEN Count(dbAdmits, db, db.allowed)
                           ELSE dbAdmits
            /\ hybAdmits' = IF consult THEN Count(hybAdmits, db, ret.allowed)
                            ELSE hybAdmits
            /\ UNCHANGED <<now, max_requests, window_seconds, lock, threads, session, rest>>

\* DatabaseRateLimiter.is_allowed(identifier, resource, max_requests,
\* window_seconds), the persistent limiter used alone.
DbIsAllowedAlone(identifier, resource) ==
    \E rate_limit \in Query(rows, identifier, resource) :
        LET db == DbIsAllowed(rows, rate_limit, identifier, resource,
                              max_requests, window_seconds, now)
        IN  /\ rows' = db.rows
            /\ result' =
                 [op |-> "db", identifier |-> identifier, resource |-> resource,
                  use_db |-> TRUE, at |-> now,
                  outcome |-> "returned", allowed |-> db.allowed,
                  retry_after |-> db.retry_after,
                  mem_allowed |-> FALSE, mem_retry_after |-> 0,
                  db_branch |-> db.branch, db_allowed |-> db.allowed,
                  db_retry_after |-> db.retry_after]
            /\ dbAdmits' = Count(dbAdmits, db, db.allowed)
            /\ hybAdmits' = Count(hybAdmits, db, FALSE)
            /\ UNCHANGED <<now, limits, memLog, max_requests, window_seconds,
                           lock, threads, session, rest>>

\* The process restarts: the module-level _global_rate_limiter is built
\* anew with an empty limits map; the table survives.
Restart ==
    /\ limits # <<>>
    /\ limits' = <<>>
    /\ memLog' = [k \in Keys |-> <<>>]
    /\ result' = [NoResult EXCEPT !.op = "restart", !.at = now]
    /\ UNCHANGED <<now, rows, dbAdmits, hybAdmits, max_requests, window_seconds,
                   lock, threads, session, rest>>

Next ==
    \/ Tick
    \/ \E i \in Identifiers, r \in Resources, use_db \in BOOLEAN :
           HybridIsAllowed(i, r, use_db)
    \/ \E i \in Identifiers, r \in Resources : DbIsAllowedAlone(i, r)
    \/ Restart

Spec == Init /\ [][Next]_vars

\* ------------------------------ threads inside InMemoryRateLimiter.is_allowed
\* Mutant: the body runs without taking the lock.
LockNotTaken == TRUE

\* with self._lock: the lock can be acquired only while no thread holds it.
LockAvailable == lock = Free

ThreadKey(th) == Key(threads[th].identifier, threads[th].resource)

MemResult(th, outcome, allowed, retry_after) ==
    [NoResult EXCEPT !.op = "mem", !.identifier = threads[th].identifier,
                     !.resource = threads[th].resource, !.at = threads[th].now,
                     !.outcome = outcome, !.allowed = allowed,
                     !.retry_after = retry_after, !.mem_allowed = allowed,
                     !.mem_retry_after = retry_after]

\* with self._lock: now = time.time(); window_start = now - window_seconds;
\* if key not in self.limits: self.limits[key] = {...}
MemEnter(th, identifier, resource) ==
    /\ threads[th].pc = "idle"
    /\ LockAvailable
    /\ lock' = th
    /\ threads' = [threads EXCEPT ![th] =
                      [pc |-> "entered", identifier |-> identifier,
                       resource |-> resource, now |-> now]]
    /\ limits' = EnsureKey(limits, Key(identifier, resource), now)
    /\ UNCHANGED <<now, rows, result, memLog, dbAdmits, hybAdmits,
                   max_requests, window_seconds, session, rest>>

\* self.limits[key]['requests'] = [... if req_time > window_start]
MemPrune(th) ==
    /\ threads[th].pc = "entered"
    /\ limits' = [limits EXCEPT ![ThreadKey(th)].requests =
                     Prune(@, threads[th].now - window_seconds)]
    /\ threads' = [threads EXCEPT ![th].pc = "pruned"]
    /\ UNCHANGED <<now, rows, result, memLog, dbAdmits, hybAdmits,
                   max_requests, window_seconds, lock, session, rest>>

\* if len(self.limits[key]['requests']) >= max_requests:
MemCheck(th) ==
    /\ threads[th].pc = "pruned"
    /\ threads' = [threads EXCEPT ![th].pc =
                      IF MemLimitExceeded(limits[ThreadKey(th)].requests, max_requests)
                      THEN "exceeded" ELSE "admit"]
    /\ UNCHANGED <<now, limits, rows, result, memLog, dbAdmits, hybAdmits,
                   max_requests, window_seconds, lock, session, rest>>

\* oldest_request = requests[0]; return False, max(0, retry_after)
\* (IndexError when the list is empty); the lock is released on the way out.
MemReject(th) ==
    /\ threads[th].pc = "exceeded"
    /\ result' = IF limits[ThreadKey(th)].requests = <<>>
                 THEN MemResult(th, "IndexError", FALSE, 0)
                 ELSE MemResult(th, "returned", FALSE,
                                MemRetryAfter(limits[ThreadKey(th)].requests,
                                              window_seconds, threads[th].now))
    /\ threads' = [threads EXCEPT ![th] = Idle]
    /\ lock' = Free
    /\ UNCHANGED <<now, limits, rows, memLog, dbAdmits, hybAdmits,
                   max_requests, window_seconds, session, rest>>

\* self.limits[key]['requests'].append(now); return True, 0.0
MemAppend(th) ==
    /\ threads[th].pc = "admit"
    /\ limits' = [limits EXCEPT ![ThreadKey(th)].requests =
                     Append(@, threads[th].now)]
    /\ memLog' = [memLog EXCEPT ![ThreadKey(th)] = Append(@, threads[th].now)]
    /\ result' = MemResult(th, "returned", TRUE, 0)
    /\ threads' = [threads EXCEPT ![th] = Idle]
    /\ lock' = Free
    /\ UNCHANGED <<now, rows, dbAdmits, hybAdmits,
                   max_requests, window_seconds, session, rest>>

NextMem ==
    \/ Tick
    \/ \E th \in Threads, i \in Identifiers, r \in Resources : MemEnter(th, i, r)
    \/ \E th \in Threads : MemPrune(th)
    \/ \E th \in Threads : MemCheck(th)
    \/ \E th \in Threads : MemReject(th)
    \/ \E th \in Threads : MemAppend(th)

SpecMem == Init /\ [][NextMem]_vars

\* --------------------- processes inside DatabaseRateLimiter.is_allowed
\* with get_db_session() as db: rate_limit = db.query(RateLimit).filter(...).first()
DbQuery(p, identifier, resource) ==
    /\ session[p].pc = "idle"
    /\ \E rate_limit \in Query(rows, identifier, resource) :
           session' = [session EXCEPT ![p] =
                          [pc |-> "queried", identifier |-> identifier,
                           resource |-> resource, rate_limit |-> rate_limit]]
    /\ UNCHANGED <<now, limits, rows, result, memLog, dbAdmits, hybAdmits,
                   max_requests, window_seconds, lock, threads, rest>>

\* The rest of the body, on the object the query loaded, up to db.commit()
\* and the return.
DbCommit(p) ==
    /\ session[p].pc = "queried"
    /\ LET db == DbIsAllowed(rows, session[p].rate_limit, session[p].identifier,
                             session[p].resource, max_requests, window_seconds, now)
       IN  /\ rows' = db.rows
           /\ result' =
                [NoResult EXCEPT !.op = "db", !.identifier = session[p].identifier,
                                 !.resource = session[p].resource,
                                 !.use_db = TRUE, !.at = now,
                                 !.outcome = "returned", !.allowed = db.allowed,
                                 !.retry_after = db.retry_after,
                                 !.db_branch = db.branch,
                                 !.db_allowed = db.allowed,
                                 !.db_retry_after = db.retry_after]
           /\ dbAdmits' = Count(dbAdmits, db, db.allowed)
    /\ session' = [session EXCEPT ![p] = NoSession]
    /\ UNCHANGED <<now, limits, memLog, hybAdmits,
                   max_requests, window_seconds, lock, threads, rest>>

NextDb ==
    \/ Tick
    \/ \E p \in Procs, i \in Identifiers, r \in Resources : DbQuery(p, i, r)
    \/ \E p \in Procs : DbCommit(p)

SpecDb == Init /\ [][NextDb]_vars

\* ------------------------------------- check_rate_limit and reset_limit
\* Mutant: the limiter catches the store's exception and admits the request.
HybridSwallowsDbError(ret, db_raises) ==
    IF db_raises
    THEN [outcome |-> "returned", allowed |-> TRUE, retry_after |-> 0]
    ELSE ret

\* HybridRateLimiter.is_allowed calls self.db_limiter.is_allowed outside any
\* try block: an exception of the store leaves is_allowed before its return.
HybridPropagates(ret, db_raises) ==
    IF db_raises
    THEN [outcome |-> "DbError", allowed |-> FALSE, retry_after |-> 0]
    ELSE ret

\* The database limiter consulted by a call whose store raises: the session
\* is closed without a commit.
DbRaised(table) ==
    [rows |-> table, branch |-> "error", allowed |-> FALSE, retry_after |-> 0]

\* HybridRateLimiter.is_allowed as a function of the state it reads:
\* the in-memory check, then (if consulted) the database check, then the
\* value returned.  db_raises says whether the store raises when consulted.
HybridCall(lim, table, rate_limit, identifier, resource, max_req, window, use_db, db_raises, t) ==
    LET mem == MemIsAllowed(lim, identifier, resource, max_req, window, t)
        consult == HybridConsultsDb(mem, use_db)
        raised == consult /\ db_raises
        db == IF ~consult THEN NotCalled
              ELSE IF db_raises THEN DbRaised(table)
              ELSE DbIsAllowed(table, rate_limit, identifier, resource,
                               max_req, window, t)
    IN  [limits |-> mem.limits,
         rows |-> IF consult THEN db.rows ELSE table,
         mem |-> mem, db |-> db, consult |-> consult,
         ret |-> HybridPropagates(HybridReturn(mem, db, use_db), raised)]

\* The record of a call of HybridRateLimiter.is_allowed kept in result.
HybridResult(h, identifier, resource, use_db, t) ==
    [op |-> "hybrid", identifier |-> identifier, resource |-> resource,
     use_db |-> use_db, at |-> t,
     outcome |-> h.ret.outcome, allowed |-> h.ret.allowed,
     retry_after |-> h.ret.retry_after,
     mem_allowed |-> h.mem.allowed, mem_retry_after |-> h.mem.retry_after,
     db_branch |-> h.db.branch, db_allowed |-> h.db.allowed,
     db_retry_after |-> h.db.retry_after]

\* Mutant: the exception is raised on every rejection.
CheckRateLimitAlwaysRaises(ret, resource, raise_exception) ==
    IF ret.outcome # "returned"
    THEN [op |-> "check_rate_limit", raise_exception |-> raise_exception,
          outcome |-> ret.outcome, value |-> FALSE,
          exc_retry_after |-> 0, exc_resource |-> ""]
    ELSE IF ~ret.allowed
    THEN [op |-> "check_rate_limit", raise_exception |-> raise_exception,
          outcome |-> "RateLimitExceeded", value |-> FALSE,
          exc_retry_after |-> ret.retry_after, exc_resource |-> resource]
    ELSE [op |-> "check_rate_limit", raise_exception |-> raise_exception,
          outcome |-> "returned", value |-> ret.allowed,
          exc_retry_after |-> 0, exc_resource |-> ""]

\* if not is_allowed and raise_exception:
\*     raise RateLimitExceeded(f"Rate limit exceeded for {resource}", retry_after, resource)
\* return is_allowed
CheckRateLimitReturn(ret, resource, raise_exception) ==
    IF ret.outcome # "returned"
    THEN [op |-> "check_rate_limit", raise_exception |-> raise_exception,
          outcome |-> ret.outcome, value |-> FALSE,
          exc_retry_after |-> 0, exc_resource |-> ""]
    ELSE IF ~ret.allowed /\ raise_exception
    THEN [op |-> "check_rate_limit", raise_exception |-> raise_exception,
          outcome |-> "RateLimitExceeded", value |-> FALSE,
          exc_retry_after |-> ret.retry_after, exc_resource |-> resource]
    ELSE [op |-> "check_rate_limit", raise_exception |-> raise_exception,
          outcome |-> "returned", value |-> ret.allowed,
          exc_retry_after |-> 0, exc_resource |-> ""]

\* check_rate_limit as a function of the state it reads: the call of
\* _global_rate_limiter.is_allowed, then the value returned or the exception.
CheckRateLimitCall(lim, table, rate_limit, identifier, resource, max_req, window, raise_exception, use_db, db_raises, t) ==
    LET h == HybridCall(lim, table, rate_limit, identifier, resource,
                        max_req, window, use_db, db_raises, t)
    IN  [limits |-> h.limits, rows |-> h.rows, h |-> h,
         api |-> CheckRateLimitReturn(h.ret, resource, raise_exception)]

\* The histories after a call h of HybridRateLimiter.is_allowed.
LogAdmission(log, h, identifier, resource, t) ==
    IF h.mem.allowed
    THEN [log EXCEPT ![Key(identifier, resource)] = Append(@, t)]
    ELSE log

CountDb(n, h, counted) ==
    IF h.consult /\ h.db.branch # "error" THEN Count(n, h.db, counted) ELSE n

ResetOps == {"reset_mem", "reset_db", "reset_hybrid"}

\* beforeReset after a check: kept while the check follows, at the same
\* instant, a reset of its pair.
AfterCheck(identifier, resource) ==
    IF /\ result.op \in ResetOps /\ result.at = now
       /\ result.identifier = identifier /\ result.resource = resource
    THEN beforeReset ELSE "none"

\* beforeReset after a reset: how the check of the pair ended that the reset
\* (or the resets) follow at the same instant.
AfterReset(identifier, resource) ==
    IF /\ result.at = now
       /\ result.identifier = identifier /\ result.resource = resource
    THEN (IF result.op \in ResetOps THEN beforeReset
          ELSE IF result.op # "hybrid" THEN "none"
          ELSE IF result.allowed THEN "admitted"
          ELSE IF result.db_branch = "exceeded" THEN "db_rejected"
          ELSE "rejected")
    ELSE "none"

\* What a call h of HybridRateLimiter.is_allowed leaves in the limiter's
\* state and in the histories.
HybridStep(h, identifier, resource, use_db) ==
    /\ limits' = h.limits
    /\ rows' = h.rows
    /\ result' = HybridResult(h, identifier, resource, use_db, now)
    /\ memLog' = LogAdmission(memLog, h, identifier, resource, now)
    /\ dbAdmits' = CountDb(dbAdmits, h, h.db.allowed)
    /\ hybAdmits' = CountDb(hybAdmits, h, h.ret.allowed)

\* check_rate_limit(identifier, resource, max_requests, window_seconds,
\* raise_exception, use_db) on the module's _global_rate_limiter; the store
\* may raise.
CheckRateLimit(identifier, resource, raise_exception, use_db) ==
    \E rate_limit \in Query(rows, identifier, resource), db_raises \in BOOLEAN :
        LET c == CheckRateLimitCall(limits, rows, rate_limit, identifier, resource,
                                    max_requests, window_seconds,
                                    raise_exception, use_db, db_raises, now)
        IN  /\ db_raises => c.h.consult
            /\ HybridStep(c.h, identifier, resource, use_db)
            /\ api' = c.api
            /\ UNCHANGED <<now, max_requests, window_seconds, lock, threads,
                           session, dbLog, cmdLog, beforeReset, cacheVars, botVars>>

NextApi ==
    \/ Tick
    \/ \E i \in Identifiers, r \in Resources,
          raise_exception \in BOOLEAN, use_db \in BOOLEAN :
           CheckRateLimit(i, r, raise_exception, use_db)

SpecApi == Init /\ [][NextApi]_vars

\* HybridRateLimiter.is_allowed(identifier, resource, max_requests,
\* window_seconds, use_db) between resets; the store may raise.
HybridCheck(identifier, resource, use_db) ==
    \E rate_limit \in Query(rows, identifier, resource), db_raises \in BOOLEAN :
        LET h == HybridCall(limits, rows, rate_limit, identifier, resource,
                            max_requests, window_seconds, use_db, db_raises, now)
        IN  /\ db_raises => h.consult
            /\ HybridStep(h, identifier, resource, use_db)
            /\ beforeReset' = AfterCheck(identifier, resource)
            /\ UNCHANGED <<now, max_requests, window_seconds, lock, threads,
                           session, api, dbLog, cmdLog, cacheVars, botVars>>

\* The map lim without key.
Remove(lim, key) ==
    IF DOMAIN lim \ {key} = {} THEN <<>>
    ELSE [k \in DOMAIN lim \ {key} |-> lim[k]]

\* Mutant: the entry is deleted without the membership test.
MemResetLimitUnchecked(lim, identifier, resource) ==
    LET key == Key(identifier, resource)
    IN  IF key \in DOMAIN lim
        THEN [limits |-> Remove(lim, key), outcome |-> "returned"]
        ELSE [limits |-> lim, outcome |-> "KeyError"]

\* InMemoryRateLimiter.reset_limit:
\* if key in self.limits: del self.limits[key]
MemResetLimit(lim, identifier, resource) ==
    LET key == Key(identifier, resource)
    IN  IF key \in DOMAIN lim
        THEN [limits |-> Remove(lim, key), outcome |-> "returned"]
        ELSE [limits |-> lim, outcome |-> "returned"]

\* Mutant: the reset commits without deleting the row.
DbResetLimitKeepsRow(table, rate_limit) == table

\* DatabaseRateLimiter.reset_limit with rate_limit the row .first() returned:
\* if rate_limit: db.delete(rate_limit); db.commit()
DbResetLimit(table, rate_limit) ==
    IF rate_limit # NoRow THEN table \ {rate_limit} ELSE table

\* Mutant: the hybrid reset leaves the table alone.
HybridResetNeverUsesDb(use_db) == FALSE

\* if use_db: self.db_limiter.reset_limit(identifier, resource)
HybridResetUsesDb(use_db) == use_db

\* The record of a reset kept in result.
ResetResult(op, identifier, resource, use_db, outcome) ==
    [NoResult EXCEPT !.op = op, !.identifier = identifier,
                     !.resource = resource, !.use_db = use_db,
                     !.at = now, !.outcome = outcome]

\* InMemoryRateLimiter.reset_limit(identifier, resource)
MemReset(identifier, resource) ==
    LET m == MemResetLimit(limits, identifier, resource)
    IN  /\ limits' = m.limits
        /\ memLog' = [memLog EXCEPT ![Key(identifier, resource)] = <<>>]
        /\ result' = ResetResult("reset_mem", identifier, resource, FALSE, m.outcome)
        /\ beforeReset' = AfterReset(identifier, resource)
        /\ UNCHANGED <<now, rows, dbAdmits, hybAdmits, max_requests,
                       window_seconds, lock, threads, session,
                       api, dbLog, cmdLog, cacheVars, botVars>>

\* DatabaseRateLimiter.reset_limit(identifier, resource); the store may raise.
DbReset(identifier, resource) ==
    \E rate_limit \in Query(rows, identifier, resource), db_raises \in BOOLEAN :
        LET table == IF db_raises THEN rows ELSE DbResetLimit(rows, rate_limit)
        IN  /\ rows' = table
            /\ dbAdmits' = IF table # rows THEN 0 ELSE dbAdmits
            /\ hybAdmits' = IF table # rows THEN 0 ELSE hybAdmits
            /\ result' = ResetResult("reset_db", identifier, resource, TRUE,
                                     IF db_raises THEN "DbError" ELSE "returned")
            /\ beforeReset' = AfterReset(identifier, resource)
            /\ UNCHANGED <<now, limits, memLog, max_requests, window_seconds,
                           lock, threads, session,
                           api, dbLog, cmdLog, cacheVars, botVars>>

\* HybridRateLimiter.reset_limit(identifier, resource, use_db): the in-memory
\* reset, then the database reset if use_db; the store may raise.
HybridReset(identifier, resource, use_db) ==
    \E rate_limit \in Query(rows, identifier, resource), db_raises \in BOOLEAN :
        LET m == MemResetLimit(limits, identifier, resource)
            db_called == m.outcome = "returned" /\ HybridResetUsesDb(use_db)
            table == IF db_called /\ ~db_raises
                     THEN DbResetLimit(rows, rate_limit) ELSE rows
        IN  /\ db_raises => db_called
            /\ limits' = m.limits
            /\ memLog' = [memLog EXCEPT ![Key(identifier, resource)] = <<>>]
            /\ rows' = table
            /\ dbAdmits' = IF table # rows THEN 0 ELSE dbAdmits
            /\ hybAdmits' = IF table # rows THEN 0 ELSE hybAdmits
            /\ result' = ResetResult("reset_hybrid", identifier, resource, use_db,
                                     IF m.outcome # "returned" THEN m.outcome
                                     ELSE IF db_raises THEN "DbError"
                                     ELSE "returned")
            /\ beforeReset' = AfterReset(identifier, resource)
            /\ UNCHANGED <<now, max_requests, window_seconds, lock, threads,
                           session, api, dbLog, cmdLog, cacheVars, botVars>>

NextReset ==
    \/ Tick
    \/ \E i \in Identifiers, r \in Resources, use_db \in BOOLEAN :
           HybridCheck(i, r, use_db)
    \/ \E i \in Identifiers, r \in Resources : MemReset(i, r)
    \/ \E i \in Identifiers, r \in Resources : DbReset(i, r)
    \/ \E i \in Identifiers, r \in Resources, use_db \in BOOLEAN :
           HybridReset(i, r, use_db)

SpecReset == Init /\ [][NextReset]_vars

\* ------------------------------------------------- CommandRateLimiter
\* def __init__(self, default_commands_per_minute: int = 10)
DefaultCommandsPerMinute == 10

\* the window check_command_limit passes: 60,  # 60 seconds window
CommandWindow == 60

\* f"user:{user_id}"
UserIdentifier(user_id) == "user:" \o user_id

\* Mutant: the command name is used as the resource without its prefix.
CommandResourceBare(command_name) == command_name

\* f"command:{command_name}"
CommandResource(command_name) == "command:" \o command_name

\* max_requests: Optional[int] = None, the argument left out
None == -1

\* if max_requests is None: max_requests = self.default_commands_per_minute
\* (user_rate_limit: max_requests: int = 10)
CommandMax(max_req) ==
    IF max_req = None THEN DefaultCommandsPerMinute ELSE max_req

\* cmdLog after the call h made through path via for (user_id, command_name).
LogCommand(h, via, user_id, command_name, max_req) ==
    [mem |-> IF h.mem.allowed
             THEN [cmdLog.mem EXCEPT ![<<user_id, command_name>>] = Append(@, now)]
             ELSE cmdLog.mem,
     db |-> IF h.db.allowed
            THEN [cmdLog.db EXCEPT ![<<user_id, command_name>>] = @ + 1]
            ELSE cmdLog.db,
     paths |-> IF h.mem.allowed THEN cmdLog.paths \cup {via} ELSE cmdLog.paths,
     last |-> [via |-> via, user_id |-> user_id, command_name |-> command_name,
               max |-> max_req]]

\* CommandRateLimiter.check_command_limit(user_id, command_name, max_requests,
\* use_db) on the shared _global_rate_limiter; the store may raise.
CheckCommandLimit(user_id, command_name, use_db) ==
    LET identifier == UserIdentifier(user_id)
        resource == CommandResource(command_name)
    IN  \E rate_limit \in Query(rows, identifier, resource), db_raises \in BOOLEAN :
            LET h == HybridCall(limits, rows, rate_limit, identifier, resource,
                                CommandMax(max_requests), CommandWindow,
                                use_db, db_raises, now)
            IN  /\ db_raises => h.consult
                /\ limits' = h.limits
                /\ rows' = h.rows
                /\ result' = HybridResult(h, identifier, resource, use_db, now)
                /\ cmdLog' = LogCommand(h, "command", user_id, command_name,
                                        CommandMax(max_requests))
                /\ UNCHANGED <<now, memLog, dbAdmits, hybAdmits, max_requests,
                               window_seconds, lock, threads, session,
                               api, dbLog, beforeReset, cacheVars, botVars>>

\* user_rate_limit(user_id, f"command:{command_name}", max_requests, 60,
\* raise_exception, use_db): check_rate_limit(f"user:{user_id}", resource, ...).
UserRateLimit(user_id, command_name, raise_exception, use_db) ==
    LET identifier == UserIdentifier(user_id)
        resource == "command:" \o command_name
    IN  \E rate_limit \in Query(rows, identifier, resource), db_raises \in BOOLEAN :
            LET c == CheckRateLimitCall(limits, rows, rate_limit, identifier,
                                        resource, CommandMax(max_requests), CommandWindow,
                                        raise_exception, use_db, db_raises, now)
            IN  /\ db_raises => c.h.consult
                /\ limits' = c.limits
                /\ rows' = c.rows
                /\ result' = HybridResult(c.h, identifier, resource, use_db, now)
                /\ api' = c.api
                /\ cmdLog' = LogCommand(c.h, "user", user_id, command_name,
                                        CommandMax(max_requests))
                /\ UNCHANGED <<now, memLog, dbAdmits, hybAdmits, max_requests,
                               window_seconds, lock, threads, session,
                               dbLog, beforeReset, cacheVars, botVars>>

\* The clock advances between command checks.
TickCmd ==
    /\ now < MaxCmdTime
    /\ now' = now + 1
    /\ UNCHANGED <<limits, rows, result, memLog, dbAdmits, hybAdmits,
                   max_requests, window_seconds, lock, threads, session, rest>>

\* The runs of the command checks: every check of a run passes the same
\* max_requests or leaves it out; window_seconds is not read.
InitCmd ==
    /\ InitState
    /\ max_requests \in MaxRequestsSet \cup {None}
    /\ window_seconds = MaxWindow
    /\ use_redis = FALSE

NextCmd ==
    \/ TickCmd
    \/ \E u \in UserIds, c \in CommandNames, use_db \in BOOLEAN :
           CheckCommandLimit(u, c, use_db)
    \/ \E u \in UserIds, c \in CommandNames,
          raise_exception \in BOOLEAN, use_db \in BOOLEAN :
           UserRateLimit(u, c, raise_exception, use_db)

SpecCmd == InitCmd /\ [][NextCmd]_vars

\* ------------------------------------- the database limiter used alone
\* DatabaseRateLimiter.is_allowed(identifier, resource, max_requests,
\* window_seconds) called by one caller after another, its admissions logged.
DbCheckAlone(identifier, resource) ==
    \E rate_limit \in Query(rows, identifier, resource) :
        LET db == DbIsAllowed(rows, rate_limit, identifier, resource,
                              max_requests, window_seconds, now)
        IN  /\ rows' = db.rows
            /\ result' =
                 [NoResult EXCEPT !.op = "db", !.identifier = identifier,
                                  !.resource = resource, !.use_db = TRUE,
                                  !.at = now, !.outcome = "returned",
                                  !.allowed = db.allowed,
                                  !.retry_after = db.retry_after,
                                  !.db_branch = db.branch,
                                  !.db_allowed = db.allowed,
                                  !.db_retry_after = db.retry_after]
            /\ dbAdmits' = Count(dbAdmits, db, db.allowed)
            /\ dbLog' = IF db.allowed THEN Append(dbLog, now) ELSE dbLog
            /\ UNCHANGED <<now, limits, memLog, hybAdmits, max_requests,
                           window_seconds, lock, threads, session,
                           api, cmdLog, beforeReset, cacheVars, botVars>>

NextDbAlone ==
    \/ Tick
    \/ \E i \in Identifiers, r \in Resources : DbCheckAlone(i, r)

SpecDbAlone == Init /\ [][NextDbAlone]_vars

\* --------------------------------------------------------- CacheManager
\* def __init__(self, redis_url=None, default_ttl: int = 3600)
DefaultTtl == 3600

\* The ttl arguments: None (left out, default_ttl) or a number of seconds.
TtlSet == (0..MaxTtl) \cup {None}

\* if ttl is None: ttl = self.default_ttl
EffectiveTtl(ttl) == IF ttl = None THEN DefaultTtl ELSE ttl

\* What a method returns: None, a bool, or a value.
RetNone == [kind |-> "none", bool |-> FALSE, value |-> Number(0)]
RetBool(b) == [kind |-> "bool", bool |-> b, value |-> Number(0)]
RetValue(v) == [kind |-> "value", bool |-> FALSE, value |-> v]

\* except Exception: return None / False / 0, by method
SafeDefault(op) ==
    IF op \in {"get", "increment"} THEN RetNone
    ELSE IF op = "get_ttl" THEN RetValue(Number(0))
    ELSE RetBool(FALSE)

\* Mutant: the exception of the backend leaves the method.
DegradeRaises(op, raised, ret) ==
    IF raised THEN [outcome |-> "raised", ret |-> RetNone]
    ELSE [outcome |-> "returned", ret |-> ret]

\* try: ... except Exception as e: self.logger.error(...); return <default>
Degrade(op, raised, ret) ==
    IF raised THEN [outcome |-> "returned", ret |-> SafeDefault(op)]
    ELSE [outcome |-> "returned", ret |-> ret]

\* ---- the in-memory backend: each operator gives the map and the return value
\* Mutant: an entry is served until it is deleted.
MemLiveForever(cache, key, t) == key \in DOMAIN cache

\* key in self.memory_cache and cached_item['expires_at'] > time.time()
MemLive(cache, key, t) ==
    key \in DOMAIN cache /\ cache[key].expires_at > t

\* get: return the value of a live entry; del an expired one and return None
MemGet(cache, key, t) ==
    IF key \notin DOMAIN cache THEN [cache |-> cache, ret |-> RetNone]
    ELSE IF MemLive(cache, key, t)
    THEN [cache |-> cache, ret |-> RetValue(cache[key].value)]
    ELSE [cache |-> Remove(cache, key), ret |-> RetNone]

\* Mutant: a set on an existing key keeps the expiry the entry had.
MemSetKeepsExpiry(cache, key, value, ttl, t) ==
    [cache |-> (key :> [value |-> value,
                        expires_at |-> IF key \in DOMAIN cache
                                       THEN cache[key].expires_at
                                       ELSE t + ttl]) @@ cache,
     ret |-> RetBool(TRUE)]

\* set: self.memory_cache[key] = {'value': value, 'expires_at': time.time() + ttl}
MemSet(cache, key, value, ttl, t) ==
    [cache |-> (key :> [value |-> value, expires_at |-> t + ttl]) @@ cache,
     ret |-> RetBool(TRUE)]

\* delete: if key in self.memory_cache: del ...; return True / return False
MemDelete(cache, key) ==
    IF key \in DOMAIN cache
    THEN [cache |-> Remove(cache, key), ret |-> RetBool(TRUE)]
    ELSE [cache |-> cache, ret |-> RetBool(FALSE)]

\* exists: True for a live entry; del an expired one and return False
MemExists(cache, key, t) ==
    IF key \notin DOMAIN cache THEN [cache |-> cache, ret |-> RetBool(FALSE)]
    ELSE IF MemLive(cache, key, t) THEN [cache |-> cache, ret |-> RetBool(TRUE)]
    ELSE [cache |-> Remove(cache, key), ret |-> RetBool(FALSE)]

\* clear: self.memory_cache.clear(); return True
MemClear(cache) == [cache |-> <<>>, ret |-> RetBool(TRUE)]

\* increment: the stored value, numeric or not, expired or not, is the base
MemIncrement(cache, key, amount, ttl, t) ==
    LET new_value ==
            IF key \in DOMAIN cache /\ cache[key].value.num
            THEN Number(cache[key].value.v + amount)
            ELSE Number(amount)
    IN  [cache |-> (key :> [value |-> new_value, expires_at |-> t + ttl]) @@ cache,
         ret |-> RetValue(new_value)]

\* Mutant: the remaining time is returned as computed.
MemGetTtlUnclamped(cache, key, t) ==
    IF key \in DOMAIN cache
    THEN [cache |-> cache, ret |-> RetValue(Number(cache[key].expires_at - t))]
    ELSE [cache |-> cache, ret |-> RetValue(Number(0))]

\* get_ttl: max(0, int(expires_at - time.time())) for a stored entry, else 0
MemGetTtl(cache, key, t) ==
    IF key \in DOMAIN cache
    THEN [cache |-> cache, ret |-> RetValue(Number(Max(0, cache[key].expires_at - t)))]
    ELSE [cache |-> cache, ret |-> RetValue(Number(0))]

\* ---- the Redis backend: the server's keys, each with a serialized value
\* and the instant it expires (None: no expiry)
\* json.dumps(value, default=str)
JsonDumps(value) == [json |-> value]

\* json.loads(value)
JsonLoads(serialized) == serialized.json

\* The keys the server still holds at t.
RedisPurge(store, t) ==
    LET live == {k \in DOMAIN store :
                    store[k].expires_at = None \/ store[k].expires_at > t}
    IN  IF live = {} THEN <<>> ELSE [k \in live |-> store[k]]

\* GET key, then json.loads
RedisGet(store, key) ==
    IF key \in DOMAIN store THEN RetValue(JsonLoads(store[key].value)) ELSE RetNone

\* SETEX key ttl value: an expire time that is not positive is an error
RedisSetex(store, key, ttl, serialized, t) ==
    IF ttl <= 0 THEN [store |-> store, raised |-> TRUE]
    ELSE [store |-> (key :> [value |-> serialized, expires_at |-> t + ttl]) @@ store,
          raised |-> FALSE]

\* INCRBY key amount: a missing key counts from 0 and gets no expiry; a
\* value that is not an integer is an error
RedisIncrby(store, key, amount) ==
    IF key \notin DOMAIN store
    THEN [store |-> (key :> [value |-> JsonDumps(Number(amount)),
                             expires_at |-> None]) @@ store,
          raised |-> FALSE, result |-> amount]
    ELSE IF ~JsonLoads(store[key].value).num
    THEN [store |-> store, raised |-> TRUE, result |-> 0]
    ELSE LET n == JsonLoads(store[key].value).v + amount
         IN  [store |-> [store EXCEPT ![key].value = JsonDumps(Number(n))],
              raised |-> FALSE, result |-> n]

\* EXPIRE key ttl
RedisExpire(store, key, ttl, t) == [store EXCEPT ![key].expires_at = t + ttl]

\* TTL key: -2 for a missing key, -1 for a key without expiry
RedisTtl(store, key, t) ==
    IF key \notin DOMAIN store THEN -2
    ELSE IF store[key].expires_at = None THEN -1
    ELSE store[key].expires_at - t

\* ---- the public methods: what a call leaves in both backends, whether the
\* backend raised, and the value the method's try block would return.
\* fails says whether the Redis client raises (a lost connection).
Call(mem, store, raised, ret) ==
    [mem |-> mem, redis |-> store, raised |-> raised, ret |-> ret]

FromMemory(m) == Call(m.cache, redis, FALSE, m.ret)

GetCall(key, fails) ==
    LET store == RedisPurge(redis, now)
    IN  IF ~use_redis THEN FromMemory(MemGet(memory_cache, key, now))
        ELSE IF fails THEN Call(memory_cache, store, TRUE, RetNone)
        ELSE Call(memory_cache, store, FALSE, RedisGet(store, key))

SetCall(key, value, ttl, fails) ==
    LET store == RedisPurge(redis, now)
        s == RedisSetex(store, key, ttl, JsonDumps(value), now)
    IN  IF ~use_redis THEN FromMemory(MemSet(memory_cache, key, value, ttl, now))
        ELSE IF fails THEN Call(memory_cache, store, TRUE, RetNone)
        ELSE Call(memory_cache, s.store, s.raised, RetBool(TRUE))

DeleteCall(key, fails) ==
    LET store == RedisPurge(redis, now)
    IN  IF ~use_redis THEN FromMemory(MemDelete(memory_cache, key))
        ELSE IF fails THEN Call(memory_cache, store, TRUE, RetNone)
        ELSE Call(memory_cache, Remove(store, key), FALSE,
                  RetBool(key \in DOMAIN store))

ExistsCall(key, fails) ==
    LET store == RedisPurge(redis, now)
    IN  IF ~use_redis THEN FromMemory(MemExists(memory_cache, key, now))
        ELSE IF fails THEN Call(memory_cache, store, TRUE, RetNone)
        ELSE Call(memory_cache, store, FALSE, RetBool(key \in DOMAIN store))

ClearCall(fails) ==
    LET store == RedisPurge(redis, now)
    IN  IF ~use_redis THEN FromMemory(MemClear(memory_cache))
        ELSE IF fails THEN Call(memory_cache, store, TRUE, RetNone)
        ELSE Call(memory_cache, <<>>, FALSE, RetBool(TRUE))

\* fails_expire says whether the client raises in the expire that follows incrby.
IncrementCall(key, amount, ttl, fails, fails_expire) ==
    LET store == RedisPurge(redis, now)
        i == RedisIncrby(store, key, amount)
    IN  IF ~use_redis
        THEN FromMemory(MemIncrement(memory_cache, key, amount, ttl, now))
        ELSE IF fails THEN Call(memory_cache, store, TRUE, RetNone)
        ELSE IF i.raised THEN Call(memory_cache, i.store, TRUE, RetNone)
        ELSE IF ttl <= 0
        THEN Call(memory_cache, i.store, FALSE, RetValue(Number(i.result)))
        ELSE IF fails_expire THEN Call(memory_cache, i.store, TRUE, RetNone)
        ELSE Call(memory_cache, RedisExpire(i.store, key, ttl, now), FALSE,
                  RetValue(Number(i.result)))

GetTtlCall(key, fails) ==
    LET store == RedisPurge(redis, now)
        ttl == RedisTtl(store, key, now)
    IN  IF ~use_redis THEN FromMemory(MemGetTtl(memory_cache, key, now))
        ELSE IF fails THEN Call(memory_cache, store, TRUE, RetNone)
        ELSE Call(memory_cache, store, FALSE,
                  RetValue(Number(IF ttl > 0 THEN ttl ELSE 0)))

CacheKeys == {"k"}
CacheValues == {Text(1), Number(1)}
Amounts == {1}

\* The number an increment of key would add to (0 when there is none).
CurrentCount(key) ==
    IF use_redis
    THEN (IF key \in DOMAIN redis /\ JsonLoads(redis[key].value).num
          THEN JsonLoads(redis[key].value).v ELSE 0)
    ELSE (IF key \in DOMAIN memory_cache /\ memory_cache[key].value.num
          THEN memory_cache[key].value.v ELSE 0)

\* The history of writes after a method of the in-memory backend returned.
WrittenAfter(op, key, value, ttl) ==
    IF use_redis THEN written
    ELSE IF op = "set"
    THEN [set |-> (key :> [value |-> value, until |-> now + ttl,
                           incremented |-> FALSE]) @@ written.set,
          entry |-> (key :> [value |-> value, until |-> now + ttl]) @@ written.entry,
          gone |-> Remove(written.gone, key)]
    ELSE IF op = "increment"
    THEN [set |-> IF key \in DOMAIN written.set
                  THEN [written.set EXCEPT ![key].incremented = TRUE]
                  ELSE written.set,
          entry |-> (key :> [value |-> value, until |-> now + ttl]) @@ written.entry,
          gone |-> IF key \in DOMAIN written.gone
                   THEN (key :> "incremented") @@ written.gone
                   ELSE written.gone]
    ELSE IF op = "delete"
    THEN [set |-> Remove(written.set, key),
          entry |-> Remove(written.entry, key),
          gone |-> (key :> "deleted") @@ written.gone]
    ELSE IF op = "clear"
    THEN [set |-> <<>>, entry |-> <<>>, gone |-> [k \in CacheKeys |-> "deleted"]]
    ELSE written

\* The state after a call c of method op: the backends, the value returned
\* to the caller, the history.
Finish(op, key, arg, ttl, c) ==
    LET d == Degrade(op, c.raised, c.ret)
    IN  /\ memory_cache' = c.mem
        /\ redis' = c.redis
        /\ cres' = [op |-> op, key |-> key, at |-> now, arg |-> arg, ttl |-> ttl,
                    raised |-> c.raised, outcome |-> d.outcome,
                    kind |-> d.ret.kind, bool |-> d.ret.bool,
                    value |-> d.ret.value]
        /\ written' = WrittenAfter(op, key,
                                   IF op = "increment" THEN c.ret.value ELSE arg,
                                   ttl)
        /\ UNCHANGED <<now, limits, rows, result, memLog, dbAdmits, hybAdmits,
                       max_requests, window_seconds, lock, threads, session,
                       api, dbLog, cmdLog, beforeReset, use_redis,
                       botVars>>

\* CacheManager.get(key)
CacheGet(key) ==
    \E fails \in BOOLEAN :
        /\ fails => use_redis
        /\ Finish("get", key, Number(0), 0, GetCall(key, fails))

\* CacheManager.set(key, value, ttl)
CacheSet(key, value, ttl) ==
    \E fails \in BOOLEAN :
        /\ fails => use_redis
        /\ Finish("set", key, value, EffectiveTtl(ttl),
                  SetCall(key, value, EffectiveTtl(ttl), fails))

\* CacheManager.delete(key)
CacheDelete(key) ==
    \E fails \in BOOLEAN :
        /\ fails => use_redis
        /\ Finish("delete", key, Number(0), 0, DeleteCall(key, fails))

\* CacheManager.exists(key)
CacheExists(key) ==
    \E fails \in BOOLEAN :
        /\ fails => use_redis
        /\ Finish("exists", key, Number(0), 0, ExistsCall(key, fails))

\* CacheManager.clear()
CacheClear ==
    \E fails \in BOOLEAN :
        /\ fails => use_redis
        /\ Finish("clear", "", Number(0), 0, ClearCall(fails))

\* CacheManager.increment(key, amount, ttl)
CacheIncrement(key, amount, ttl) ==
    \E fails \in BOOLEAN, fails_expire \in BOOLEAN :
        /\ fails => use_redis
        /\ fails_expire => (use_redis /\ ~fails /\ EffectiveTtl(ttl) > 0)
        /\ CurrentCount(key) + amount <= MaxCount
        /\ Finish("increment", key, Number(amount), EffectiveTtl(ttl),
                  IncrementCall(key, amount, EffectiveTtl(ttl), fails, fails_expire))

\* CacheManager.get_ttl(key)
CacheGetTtl(key) ==
    \E fails \in BOOLEAN :
        /\ fails => use_redis
        /\ Finish("get_ttl", key, Number(0), 0, GetTtlCall(key, fails))

\* The cache manager is built with or without a Redis URL; the limiter's
\* arguments are not read.
InitCache ==
    /\ InitState
    /\ max_requests = MaxRequests
    /\ window_seconds = MaxWindow
    /\ use_redis \in BOOLEAN

NextCache ==
    \/ Tick
    \/ \E k \in CacheKeys : CacheGet(k)
    \/ \E k \in CacheKeys, v \in CacheValues, ttl \in TtlSet : CacheSet(k, v, ttl)
    \/ \E k \in CacheKeys : CacheDelete(k)
    \/ \E k \in CacheKeys : CacheExists(k)
    \/ CacheClear
    \/ \E k \in CacheKeys, a \in Amounts, ttl \in TtlSet : CacheIncrement(k, a, ttl)
    \/ \E k \in CacheKeys : CacheGetTtl(k)

SpecCache == InitCache /\ [][NextCache]_vars

\* ------------------------------------------ pairs whose strings hold ':'
\* Two different (identifier, resource) pairs.
Pairs == {<<"user:1", "command:x">>, <<"user:1:command", "x">>}

\* Checks and resets of the pairs on one in-memory tracker (use_db false:
\* the table, which is queried by column, stays out of it).
NextPairs ==
    \/ Tick
    \/ \E p \in Pairs : HybridCheck(p[1], p[2], FALSE)
    \/ \E p \in Pairs : MemReset(p[1], p[2])
    \/ \E p \in Pairs : HybridReset(p[1], p[2], FALSE)

SpecPairs == Init /\ [][NextPairs]_vars

\* ------------------------------- the database limiter checked and reset
\* DatabaseRateLimiter.is_allowed and DatabaseRateLimiter.reset_limit called
\* by one caller after another; a run logs at most MaxLog admissions.
DbCheckLogged(identifier, resource) ==
    /\ Len(dbLog) < MaxLog
    /\ DbCheckAlone(identifier, resource)

NextDbReset ==
    \/ Tick
    \/ \E i \in Identifiers, r \in Resources : DbCheckLogged(i, r)
    \/ \E i \in Identifiers, r \in Resources : DbReset(i, r)

SpecDbReset == Init /\ [][NextDbReset]_vars

\* --------------------------------- one process, every check with use_db
\* HybridRateLimiter.is_allowed(..., use_db=True) called by one caller after
\* another on layers that start empty.
NextHybridDb ==
    \/ Tick
    \/ \E i \in Identifiers, r \in Resources : HybridIsAllowed(i, r, TRUE)

SpecHybridDb == Init /\ [][NextHybridDb]_vars

\* ---------------------------------------------------- Cocobot.on_message
\* if time_since < timedelta(minutes=3): the clock counts minutes
TateCooldown == 3

\* str(message.author.id), str(member.id): the key of a visa reminder row
Str(id) == ToString(id)

\* DatabaseManager.has_been_reminded_about_visa(db, user_id): a row of the
\* user exists
HasBeenReminded(table, user_id) == user_id \in table

\* DatabaseManager.mark_user_as_reminded_about_visa(db, user_id)
MarkAsReminded(table, user_id) == table \cup {user_id}

\* message.channel.name == "visa" and "visa" in message.content.lower()
VisaApplies(m) == m.visa_channel /\ m.visa

\* user_already_reminded: the table's answer, or the in-memory set's when the
\* query raises SQLAlchemyError
UserAlreadyReminded(table, users, m, db_raises) ==
    IF db_raises THEN m.author \in users
    ELSE HasBeenReminded(table, Str(m.author))

\* Mutant: a trigger exactly three minutes old still counts as recent.
InCooldownInclusive(cooldowns, user, t) ==
    user \in DOMAIN cooldowns /\ t - cooldowns[user] <= TateCooldown

\* user.id in self.tate_cooldowns and now - last_used < timedelta(minutes=3)
InCooldown(cooldowns, user, t) ==
    user \in DOMAIN cooldowns /\ t - cooldowns[user] < TateCooldown

\* on_message from the '!cocobot' test on: the info embed and return; the
\* 'tate' cooldown notice and return, or the recorded time and the GIF; the
\* @Nal embed; then process_commands.
AfterVisa(cooldowns, m, t) ==
    IF m.cocobot
    THEN [tate_cooldowns |-> cooldowns, sent |-> <<"info">>,
          process_commands |-> FALSE]
    ELSE IF m.tate
    THEN IF InCooldown(cooldowns, m.author, t)
         THEN [tate_cooldowns |-> cooldowns, sent |-> <<"notice">>,
               process_commands |-> FALSE]
         ELSE [tate_cooldowns |-> (m.author :> t) @@ cooldowns,
               sent |-> <<"gif">>, process_commands |-> TRUE]
    ELSE IF m.nal
    THEN [tate_cooldowns |-> cooldowns, sent |-> <<"nal">>,
          process_commands |-> TRUE]
    ELSE [tate_cooldowns |-> cooldowns, sent |-> <<>>, process_commands |-> TRUE]

BotOutput(op, m, sent, process_commands) ==
    [op |-> op, m |-> m, at |-> now, sent |-> sent,
     process_commands |-> process_commands]

\* on_message(message) in the invocation h, up to its return or, for a user
\* to be reminded, up to the await of the reminder's send.
OnMessage(h, m) ==
    \E db_raises \in BOOLEAN :
        LET remind == /\ VisaApplies(m)
                      /\ ~UserAlreadyReminded(visa_reminders, reminded_users,
                                              m, db_raises)
            a == AfterVisa(tate_cooldowns, m, now)
        IN  /\ handlers[h].pc = "idle"
            /\ db_raises => (m.author # Self /\ VisaApplies(m))
            /\ (m.author # Self /\ remind) => reminders[m.author] < MaxReminders
            /\ IF m.author = Self
               THEN /\ bot_out' = BotOutput("ignored", m, <<>>, FALSE)
                    /\ UNCHANGED <<tate_cooldowns, handlers>>
               ELSE IF remind
               THEN /\ handlers' = [handlers EXCEPT
                                       ![h] = [pc |-> "sending", author |-> m.author]]
                    /\ bot_out' = BotOutput("awaiting", m, <<>>, FALSE)
                    /\ UNCHANGED tate_cooldowns
               ELSE /\ tate_cooldowns' = a.tate_cooldowns
                    /\ bot_out' = BotOutput("on_message", m, a.sent,
                                            a.process_commands)
                    /\ UNCHANGED handlers
            /\ UNCHANGED <<reminded_users, visa_reminders, reminders>>
            /\ UNCHANGED <<now, limits, rows, result, memLog, dbAdmits, hybAdmits,
                           max_requests, window_seconds, lock, threads, session,
                           api, dbLog, cmdLog, beforeReset, cacheVars>>

\* on_message resumes in the invocation h once the reminder is sent: the user
\* is marked in the table (an SQLAlchemyError is logged) and added to
\* reminded_users; return.
ReminderSent(h) ==
    \E db_raises \in BOOLEAN :
        LET user == handlers[h].author
        IN  /\ handlers[h].pc = "sending"
            /\ visa_reminders' = IF db_raises THEN visa_reminders
                                 ELSE MarkAsReminded(visa_reminders, Str(user))
            /\ reminded_users' = reminded_users \cup {user}
            /\ handlers' = [handlers EXCEPT ![h] = IdleHandler]
            /\ reminders' = [reminders EXCEPT ![user] = @ + 1]
            /\ bot_out' = BotOutput("reminded", [NoMessage EXCEPT !.author = user,
                                                    !.visa_channel = TRUE,
                                                    !.visa = TRUE],
                                    <<"reminder">>, FALSE)
            /\ UNCHANGED tate_cooldowns
            /\ UNCHANGED <<now, limits, rows, result, memLog, dbAdmits, hybAdmits,
                           max_requests, window_seconds, lock, threads, session,
                           api, dbLog, cmdLog, beforeReset, cacheVars>>

\* AdminCog.reset_visa_reminder(ctx, member) ->
\* Cocobot.reset_visa_reminder_for_user(str(member.id)): the user's row is
\* deleted if there is one.
ResetVisaReminder(member) ==
    /\ visa_reminders' = visa_reminders \ {Str(member)}
    /\ reminders' = [reminders EXCEPT ![member] = 0]
    /\ bot_out' = BotOutput("reset", [NoMessage EXCEPT !.author = member],
                            IF Str(member) \in visa_reminders
                            THEN <<"reset">> ELSE <<"not_found">>, FALSE)
    /\ UNCHANGED <<tate_cooldowns, reminded_users, handlers>>
    /\ UNCHANGED <<now, limits, rows, result, memLog, dbAdmits, hybAdmits,
                   max_requests, window_seconds, lock, threads, session,
                   api, dbLog, cmdLog, beforeReset, cacheVars>>

\* The messages outside the visa channel.
ChatMessages ==
    [author : Users \cup {Self}, visa_channel : {FALSE}, visa : {FALSE},
     cocobot : BOOLEAN, tate : BOOLEAN, nal : BOOLEAN]

\* The messages holding 'visa' in the visa channel.
VisaMessages ==
    [author : Users, visa_channel : {TRUE}, visa : {TRUE},
     cocobot : {FALSE}, tate : BOOLEAN, nal : {FALSE}]

\* Messages outside the visa channel, one after another, as time passes.
NextTate ==
    \/ Tick
    \/ \E m \in ChatMessages : OnMessage("h1", m)

SpecTate == Init /\ [][NextTate]_vars

\* Messages holding 'visa' in the visa channel, their handlers interleaved at
\* the await of the reminder, and the administrators' resets.
NextVisa ==
    \/ \E h \in Handlers, m \in VisaMessages : OnMessage(h, m)
    \/ \E h \in Handlers : ReminderSent(h)
    \/ \E member \in Users : ResetVisaReminder(member)

SpecVisa == Init /\ [][NextVisa]_vars

\* ============================================================== claims
\* The step is a check handed to the in-memory tracker at the current instant.
MemCheckStep == now' = now /\ result'.op = "hybrid"

\* The step is a check handed to the database limiter at the current instant.
DbCheckStep == now' = now /\ result'.db_branch # "not_called"

ResultKey == Key(result.identifier, result.resource)

\* The admissions of the log that lie in the window of length w ending at t.
InWindow(log, t, w) == {i \in DOMAIN log : log[i] > t - w /\ log[i] <= t}

\* The admissions logged before the check that produced result.
LogBefore ==
    IF result.mem_allowed
    THEN SubSeq(memLog[ResultKey], 1, Len(memLog[ResultKey]) - 1)
    ELSE memLog[ResultKey]

\* C1: with max_requests = N >= 1 and window W, the in-memory tracker admits a
\* check at time t exactly when fewer than N earlier admitted checks of the
\* pair have a timestamp later than t - W.  So N requests within W of each
\* other are all admitted, an (N+1)th before t0 + W is rejected, and an
\* (N+1)th at or after t0 + W is admitted.
C1_SlidingWindow ==
    (result.op = "hybrid" /\ max_requests >= 1) =>
        /\ result.outcome = "returned"
        /\ result.mem_allowed <=>
             Cardinality(InWindow(LogBefore, result.at, window_seconds)) < max_requests

\* C1 witness: N >= 2 requests within W of each other were admitted and the
\* (N+1)th, issued exactly at t0 + W, has just been admitted.
C1_Witness ==
    /\ result.op = "hybrid" /\ result.mem_allowed
    /\ max_requests >= 2
    /\ Len(memLog[ResultKey]) = max_requests + 1
    /\ memLog[ResultKey][max_requests] - memLog[ResultKey][1] < window_seconds
    /\ result.at = memLog[ResultKey][1] + window_seconds
    /\ now = result.at

\* C2: the hybrid limiter returns allowed exactly when the tracker admits and
\* (use_db is false or the database limiter admits); when the tracker admits
\* and the database limiter rejects, the result is the database limiter's
\* rejection and the timestamp the tracker appended stays recorded.
C2_HybridDecision ==
    (result.op = "hybrid" /\ result.outcome = "returned") =>
        /\ result.allowed <=>
             (result.mem_allowed /\ (~result.use_db \/ result.db_allowed))
        /\ (result.mem_allowed /\ result.use_db /\ ~result.db_allowed) =>
             /\ result.db_branch = "exceeded"
             /\ result.retry_after = result.db_retry_after
             /\ limits[ResultKey].requests # <<>>
             /\ limits[ResultKey].requests[Len(limits[ResultKey].requests)] = result.at

\* C2 witness: the tracker admitted, the database limiter rejected.
C2_Witness ==
    /\ result.op = "hybrid" /\ result.use_db
    /\ result.mem_allowed /\ result.db_branch = "exceeded"
    /\ ~result.allowed

\* C3: a check the in-memory tracker rejects returns that rejection without
\* invoking the database limiter: the table is left as it was.
C3_ShortCircuit ==
    [][(MemCheckStep /\ result'.outcome = "returned" /\ ~result'.mem_allowed) =>
          /\ result'.db_branch = "not_called"
          /\ rows' = rows
          /\ ~result'.allowed
          /\ result'.retry_after = result'.mem_retry_after]_vars

\* C3 witness: a use_db check was rejected by the tracker while a row with
\* room left in its count exists for the pair.
C3_Witness ==
    /\ result.op = "hybrid" /\ result.use_db /\ result.outcome = "returned"
    /\ ~result.mem_allowed /\ result.at = now
    /\ \E r \in rows : /\ r.identifier = result.identifier
                       /\ r.resource = result.resource
                       /\ r.requests_count < max_requests

\* The oldest admitted timestamp still inside the window of result's check.
OldestInWindow ==
    LET log == memLog[ResultKey]
        live == {log[i] : i \in InWindow(log, result.at, window_seconds)}
    IN  CHOOSE t \in live : \A u \in live : t <= u

MemRejected(res) == res.op = "hybrid" /\ res.outcome = "returned" /\ ~res.mem_allowed

\* C9: a rejection by the in-memory tracker returns retry_after =
\* oldest remaining timestamp + window_seconds - now, with
\* 0 < retry_after <= window_seconds; an admission returns 0; and of two
\* successive rejections the later one, at a later time, returns less.
C9_RetryAfter ==
    /\ [](MemRejected(result) =>
            /\ result.mem_retry_after = OldestInWindow + window_seconds - result.at
            /\ 0 < result.mem_retry_after
            /\ result.mem_retry_after <= window_seconds)
    /\ []((result.op = "hybrid" /\ result.mem_allowed) => result.mem_retry_after = 0)
    /\ [][(MemRejected(result) /\ MemCheckStep /\ MemRejected(result')
              /\ result'.at > result.at) =>
            result'.mem_retry_after < result.mem_retry_after]_vars

\* C9 witness: a rejection with less than the whole window left to wait.
C9_Witness ==
    /\ MemRejected(result)
    /\ result.mem_retry_after < window_seconds
    /\ result.at > OldestInWindow

\* The row of the table that result's check was about.
RowsOf(identifier, resource) ==
    {r \in rows : r.identifier = identifier /\ r.resource = resource}

\* C4: the first database check of a pair observed at or after the row's
\* reset_at (= t0 + window_seconds) resets the row: count 1, reset_at
\* now + window_seconds, and the check is admitted.
C4_ResetAtOrAfter ==
    [][\A r \in rows :
          (DbCheckStep /\ max_requests >= 1
              /\ result'.identifier = r.identifier
              /\ result'.resource = r.resource /\ now >= r.reset_at) =>
            /\ result'.db_branch = "reset"
            /\ result'.db_allowed
            /\ \E q \in rows' : /\ q.id = r.id
                                /\ q.requests_count = 1
                                /\ q.reset_at = now + window_seconds]_vars

\* C5: with max_requests >= 1, sequential database checks admit at most
\* max_requests checks between the creation or reset of a window and its
\* reset_at, and the stored count never exceeds max_requests.
C5_CountBounded ==
    max_requests >= 1 =>
        /\ dbAdmits <= max_requests
        /\ \A r \in rows : r.requests_count <= max_requests /\ r.requests_count >= 1
        /\ \A r \in rows : dbAdmits = r.requests_count

\* C5 witness: the window is full and a further check has just been rejected.
C5_Witness ==
    /\ max_requests >= 1
    /\ result.db_branch = "exceeded" /\ result.at = now
    /\ dbAdmits = max_requests
    /\ \E r \in rows : r.requests_count = max_requests /\ now <= r.reset_at

\* C6: after a restart that empties the in-memory tracker while the row
\* survives, hybrid checks with use_db still admit at most max_requests
\* requests in the row's current window, those admitted before the restart
\* included.
C6_AuthoritativeAcrossRestart ==
    max_requests >= 1 => hybAdmits <= max_requests

\* C6 witness: every admission of the row's window predates the restart (the
\* tracker has admitted one check since, and the database limiter refused it).
C6_Witness ==
    /\ max_requests >= 1
    /\ result.op = "hybrid" /\ result.use_db
    /\ result.mem_allowed /\ result.db_branch = "exceeded"
    /\ hybAdmits = max_requests
    /\ Len(memLog[ResultKey]) = 1
    /\ \E r \in rows : result.at < r.reset_at

\* C10: when a hybrid check with use_db is rejected at time t with
\* retry_after r and no other check of the pair comes in between, the check of
\* the same pair at time t + r is admitted.
C10_RetryAfterIsNextAdmission ==
    [][(/\ result.op = "hybrid" /\ result.use_db
        /\ result.outcome = "returned" /\ ~result.allowed
        /\ MemCheckStep /\ result'.use_db
        /\ result'.identifier = result.identifier
        /\ result'.resource = result.resource
        /\ now = result.at + result.retry_after) =>
          result'.allowed]_vars

\* C7: the table holds at most one row per (identifier, resource) pair, also
\* after two processes concurrently perform the first check of a pair.
C7_OneRowPerPair ==
    max_requests >= 1 =>
        \A r \in rows, q \in rows :
            (r.identifier = q.identifier /\ r.resource = q.resource) => r = q

\* C8: the tracker's read-prune-decide-append sequence is atomic among the
\* threads of the process: at most one thread is inside it, every admitted
\* timestamp still in the window is in the stored list, and no window of
\* length window_seconds holds more than max_requests admissions.
C8_AtomicUnderLock ==
    max_requests >= 1 =>
        /\ Cardinality({th \in Threads : threads[th].pc # "idle"}) <= 1
        /\ \A k \in DOMAIN limits :
             SelectSeq(limits[k].requests, LAMBDA t : t > now - window_seconds)
               = SelectSeq(memLog[k], LAMBDA t : t > now - window_seconds)
        /\ \A k \in Keys : \A t \in 0..MaxTime :
             Cardinality(InWindow(memLog[k], t, window_seconds)) <= max_requests

\* C8 witness: a thread holds the lock and is about to append the last
\* admission the window has room for, after another call was admitted.
C8_Witness ==
    /\ max_requests >= 2
    /\ \E th \in Threads :
         /\ threads[th].pc = "admit" /\ lock = th
         /\ Cardinality(InWindow(memLog[ThreadKey(th)], threads[th].now,
                                 window_seconds)) = max_requests - 1

\* ------------------------------------------- check_rate_limit, reset_limit
\* C11: check_rate_limit raises RateLimitExceeded, carrying the limiter's
\* retry_after and the checked resource, exactly when the hybrid limiter
\* rejects and raise_exception is True; with raise_exception False it returns
\* False on rejection and does not raise; it returns True on admission; and
\* what the call does to the limiter's state does not depend on raise_exception.
C11_RaiseOnRejection ==
    /\ (result.op = "hybrid" /\ api.op = "check_rate_limit"
            /\ result.outcome = "returned") =>
          /\ (api.outcome = "RateLimitExceeded") <=>
                 (~result.allowed /\ api.raise_exception)
          /\ api.outcome = "RateLimitExceeded" =>
                 /\ api.exc_retry_after = result.retry_after
                 /\ api.exc_resource = result.resource
          /\ (~result.allowed /\ ~api.raise_exception) =>
                 (api.outcome = "returned" /\ api.value = FALSE)
          /\ result.allowed => (api.outcome = "returned" /\ api.value = TRUE)
    /\ \A i \in Identifiers, r \in Resources, use_db \in BOOLEAN,
          db_raises \in BOOLEAN :
          \A rate_limit \in Query(rows, i, r) :
             LET raising == CheckRateLimitCall(limits, rows, rate_limit, i, r,
                                max_requests, window_seconds, TRUE,
                                use_db, db_raises, now)
                 quiet == CheckRateLimitCall(limits, rows, rate_limit, i, r,
                                max_requests, window_seconds, FALSE,
                                use_db, db_raises, now)
             IN  raising.limits = quiet.limits /\ raising.rows = quiet.rows

\* A rejection reached the caller as RateLimitExceeded with a positive wait.
C11_Witness ==
    /\ api.outcome = "RateLimitExceeded" /\ api.raise_exception
    /\ result.op = "hybrid" /\ ~result.allowed
    /\ api.exc_retry_after > 0
    /\ api.exc_retry_after > 0
    /\ api.exc_resource = "command:x"

\* C19: when the store raises during a hybrid check with use_db, the exception
\* reaches the caller of is_allowed and of check_rate_limit: no decision is
\* returned and no RateLimitExceeded takes its place, while the timestamp the
\* in-memory tracker appended stays recorded.
C19_DbErrorPropagates ==
    result.db_branch = "error" =>
        /\ result.op = "hybrid" /\ result.use_db /\ result.mem_allowed
        /\ result.outcome = "DbError"
        /\ api.outcome = "DbError"
        /\ ResultKey \in DOMAIN limits
        /\ LET requests == limits[ResultKey].requests
           IN  Len(requests) >= 1 /\ requests[Len(requests)] = result.at

\* The store raised under a caller that asked for RateLimitExceeded.
C19_Witness ==
    /\ result.db_branch = "error"
    /\ api.op = "check_rate_limit" /\ api.raise_exception
    /\ rows # {}


SamePair(a, b) == a.identifier = b.identifier /\ a.resource = b.resource

\* The reset described by res finds nothing to delete in the state.
NoRecordFor(res) ==
    /\ res.op \in {"reset_mem", "reset_hybrid"} =>
           Key(res.identifier, res.resource) \notin DOMAIN limits
    /\ (res.op = "reset_db" \/ (res.op = "reset_hybrid" /\ res.use_db)) =>
           RowsOf(res.identifier, res.resource) = {}

\* C12: reset_limit of the in-memory, the persistent and the hybrid limiter,
\* called for a pair that has no record, completes without error and changes
\* neither the limits map nor the table; a reset repeated right after the same
\* reset changes nothing more.
C12_ResetIdempotent ==
    [][(result'.op \in ResetOps /\ now' = now /\ result'.outcome # "DbError") =>
          /\ result'.outcome = "returned"
          /\ NoRecordFor(result') => (limits' = limits /\ rows' = rows)
          /\ (result.op = result'.op /\ SamePair(result, result')
                 /\ result.use_db = result'.use_db
                 /\ result.outcome = "returned") =>
                (limits' = limits /\ rows' = rows)]_vars

\* A hybrid reset of a pair that was never checked has completed.
C12_Witness ==
    /\ result.op = "reset_hybrid" /\ result.use_db
    /\ result.outcome = "returned"
    /\ result.at = 0 /\ beforeReset = "none"
    /\ limits = <<>> /\ rows = {}

\* C13: the hybrid check that follows HybridRateLimiter.reset_limit with
\* use_db for its pair is admitted when max_requests >= 1, whatever came
\* before the reset; the in-memory tracker admits the check that follows
\* InMemoryRateLimiter.reset_limit for its pair.
C13_AdmittedAfterReset ==
    [][(result'.op = "hybrid" /\ SamePair(result, result') /\ max_requests >= 1) =>
          /\ (result.op \in {"reset_mem", "reset_hybrid"}
                 /\ result.outcome \in {"returned", "DbError"}) =>
                result'.mem_allowed
          /\ (result.op = "reset_hybrid" /\ result.use_db
                 /\ result.outcome = "returned"
                 /\ result'.outcome # "DbError") =>
                (result'.outcome = "returned" /\ result'.allowed)]_vars

\* A check the database limiter rejected, a reset, and a check admitted at
\* the same instant.
C13_Witness ==
    /\ result.op = "hybrid" /\ result.use_db /\ result.allowed
    /\ beforeReset = "db_rejected"

\* ------------------------------------------------- CommandRateLimiter
LastPair == <<cmdLog.last.user_id, cmdLog.last.command_name>>

\* The command admissions logged before the check that produced result.
CmdLogBefore ==
    IF result.mem_allowed
    THEN SubSeq(cmdLog.mem[LastPair], 1, Len(cmdLog.mem[LastPair]) - 1)
    ELSE cmdLog.mem[LastPair]

\* C14: check_command_limit(user_id, command_name, max_requests) is the shared
\* hybrid limiter's check of identifier "user:<user_id>", resource
\* "command:<command_name>", a 60-second window and max_requests (10 when left
\* out), on the counters user_rate_limit(user_id, "command:<command_name>")
\* uses: through either path a check is admitted by the in-memory tracker
\* exactly when fewer than max_requests admissions of both paths lie in the
\* window, and the pair's row counts the database admissions of both paths.
C14_SharedCounters ==
    cmdLog.last.via # "none" =>
        /\ result.op = "hybrid"
        /\ result.identifier = "user:" \o cmdLog.last.user_id
        /\ result.resource = "command:" \o cmdLog.last.command_name
        /\ cmdLog.last.max = (IF max_requests = None THEN 10 ELSE max_requests)
        /\ cmdLog.last.max >= 1 =>
              /\ result.outcome \in {"returned", "DbError"}
              /\ result.mem_allowed <=>
                   Cardinality(InWindow(CmdLogBefore, result.at, 60)) < cmdLog.last.max
        /\ \A r \in RowsOf(result.identifier, result.resource) :
              r.requests_count = cmdLog.db[LastPair]
        /\ (cmdLog.last.via = "user" /\ api.outcome = "returned") =>
              api.value = result.allowed

\* With max_requests left out, both paths have had checks admitted and a
\* check_command_limit is rejected by the counters they share.
C14_Witness ==
    /\ max_requests = None
    /\ cmdLog.paths = {"user", "command"}
    /\ cmdLog.last.via = "command"
    /\ result.op = "hybrid" /\ ~result.mem_allowed
    /\ rows # {}

\* ------------------------------------- the database limiter used alone
\* The admissions of the log in the interval [t - w, t], of length w.
InInterval(log, t, w) == {i \in DOMAIN log : log[i] >= t - w /\ log[i] <= t}

LastSet == written.set[cres.key]

\* The last write (set or increment) of the key of cres that still stands.
LastWrite == written.entry[cres.key]

\* At the call that produced cres an entry of its key was written and its
\* expires_at had not passed.
StoredLive ==
    cres.key \in DOMAIN written.entry /\ cres.at < LastWrite.until

\* C15 as stated: after set(k, v, ttl) with no later set, delete or clear of
\* k, a get(k) before the TTL has elapsed returns v and a get(k) once it has
\* elapsed returns None (in-memory backend).
C15_TtlRoundTripAsStated ==
    (~use_redis /\ cres.op = "get" /\ cres.key \in DOMAIN written.set) =>
        IF cres.at < LastSet.until
        THEN cres.kind = "value" /\ cres.value = LastSet.value
        ELSE cres.kind = "none"

\* C15: after set(k, v, ttl) with no later set, increment, delete or clear of
\* k, a get(k) before the TTL has elapsed returns v and a get(k) once it has
\* elapsed returns None (in-memory backend).
C15_TtlRoundTrip ==
    (~use_redis /\ cres.op = "get" /\ cres.key \in DOMAIN written.set
        /\ ~LastSet.incremented) =>
        IF cres.at < LastSet.until
        THEN cres.kind = "value" /\ cres.value = LastSet.value
        ELSE cres.kind = "none"

\* A get at the very instant the TTL of a set has elapsed returned None.
C15_Witness ==
    /\ ~use_redis /\ cres.op = "get" /\ cres.kind = "none"
    /\ cres.key \in DOMAIN written.set /\ ~LastSet.incremented
    /\ cres.at = LastSet.until /\ cres.at > 0

\* C16: when the backend raises during a public method of CacheManager, the
\* method raises nothing and returns its safe default: None from get and
\* increment, False from set, delete, exists and clear, 0 from get_ttl.
C16_Degrades ==
    /\ cres.op # "none" => cres.outcome = "returned"
    /\ cres.raised =>
          /\ cres.op \in {"get", "increment"} => cres.kind = "none"
          /\ cres.op \in {"set", "delete", "exists", "clear"} =>
                (cres.kind = "bool" /\ cres.bool = FALSE)
          /\ cres.op = "get_ttl" =>
                (cres.kind = "value" /\ cres.value = Number(0))

\* The Redis client raised in the expire that follows a successful incrby.
C16_Witness ==
    /\ use_redis /\ cres.raised /\ cres.op = "increment"
    /\ cres.key \in DOMAIN redis
    /\ redis[cres.key].expires_at = None

\* C17: exists(k) is True exactly when get(k) returns the stored value, that
\* is when an entry of k is stored and its expires_at has not passed;
\* get_ttl(k) is 0 when the entry is absent or expired and the remaining
\* seconds otherwise; a get or exists that finds an expired entry removes it
\* (in-memory backend).
C17_ExistsAndTtl ==
    ~use_redis =>
        /\ cres.op = "exists" => (cres.bool <=> StoredLive)
        /\ cres.op = "get" =>
              /\ (cres.kind = "value") <=> StoredLive
              /\ StoredLive => cres.value = LastWrite.value
        /\ cres.op = "get_ttl" =>
              cres.value = Number(IF StoredLive THEN LastWrite.until - cres.at
                                                ELSE 0)
        /\ (cres.op \in {"get", "exists"} /\ ~StoredLive) =>
              cres.key \notin DOMAIN memory_cache

\* An exists found the entry expired and removed it.
C17_Witness ==
    /\ ~use_redis /\ cres.op = "exists" /\ ~cres.bool
    /\ cres.key \in DOMAIN written.entry
    /\ cres.key \notin DOMAIN memory_cache

\* The step is a call of delete.
DeleteStep == cres'.op = "delete" /\ now' = now /\ ~use_redis

\* set replaces the value and the expiry; delete returns True exactly when
\* an entry of the key was stored, so a second delete in a row returns False.
SetAndDelete ==
    /\ [](~use_redis /\ cres.op = "set" =>
             /\ cres.bool
             /\ memory_cache[cres.key] =
                  [value |-> cres.arg, expires_at |-> cres.at + cres.ttl])
    /\ [][DeleteStep =>
             /\ cres'.bool <=> (cres'.key \in DOMAIN memory_cache)
             /\ (cres.op = "delete" /\ cres.key = cres'.key) => ~cres'.bool]_vars

\* The key of a get or exists (any key after a clear) counts as gone.
GoneKeys(kinds) == {k \in DOMAIN written.gone : written.gone[k] \in kinds}

\* No get returns a value and no exists returns True for a key in GoneKeys(kinds).
GoneStaysGone(kinds) ==
    (~use_redis /\ cres.key \in GoneKeys(kinds)) =>
        /\ cres.op = "get" => cres.kind = "none"
        /\ cres.op = "exists" => ~cres.bool

C21_LostUpdate ==
    [][\A p \in Procs :
          (session[p].pc = "queried" /\ session'[p].pc = "idle"
              /\ result'.db_branch = "increment") =>
             \E r \in rows' :
                 /\ r.id = session[p].rate_limit.id
                 /\ r.requests_count = session[p].rate_limit.requests_count + 1]_vars

\* One row, one window: more checks admitted than max_requests, and more
\* than the row has counted.
C21_Witness ==
    /\ max_requests >= 1
    /\ Cardinality(rows) = 1
    /\ result.op = "db" /\ result.db_branch = "increment"
    /\ dbAdmits > max_requests
    /\ \A r \in rows : r.requests_count < dbAdmits /\ r.reset_at >= now


\* ---------------------------------------------- in-memory tracker alone
\* C22: InMemoryRateLimiter.is_allowed never fails: for every pair, every
\* window_seconds > 0 and every max_requests >= 0, from every tracker state,
\* it returns (allowed, retry_after) with retry_after >= 0 and raises nothing.
C22_NeverFails ==
    result.op = "hybrid" =>
        /\ result.outcome = "returned"
        /\ result.mem_retry_after >= 0


\* The timestamps the tracker stores for the pair of the last check.
StoredRequests == limits[ResultKey].requests

\* C23: right after an InMemoryRateLimiter.is_allowed call of a pair (with
\* max_requests >= 1 and window W) made at time t, the stored timestamps of
\* the pair are non-decreasing, all lie in (t - W, t], and are at most
\* max_requests many.
C23_StoredTimestamps ==
    (result.op = "hybrid" /\ max_requests >= 1) =>
        /\ ResultKey \in DOMAIN limits
        /\ \A i, j \in DOMAIN StoredRequests :
               i <= j => StoredRequests[i] <= StoredRequests[j]
        /\ \A i \in DOMAIN StoredRequests :
               /\ result.at - window_seconds < StoredRequests[i]
               /\ StoredRequests[i] <= result.at
        /\ Len(StoredRequests) <= max_requests

\* C23 witness: a rejected check pruned an aged-out timestamp and left the
\* list full, with timestamps of different instants.
C23_Witness ==
    /\ result.op = "hybrid" /\ max_requests >= 2
    /\ result.at = now
    /\ ~result.mem_allowed
    /\ Len(StoredRequests) = max_requests
    /\ StoredRequests[1] < StoredRequests[max_requests]
    /\ Len(memLog[ResultKey]) > max_requests


\* ------------------------------------------------------ pairs are apart
\* What a check of the pair p would return in a state with tracker lim and
\* table table (the store not failing).
WouldReturn(lim, table, p, use_db) ==
    {HybridCall(lim, table, rate_limit, p[1], p[2], max_requests,
                window_seconds, use_db, FALSE, now).ret :
        rate_limit \in Query(table, p[1], p[2])}

\* The step is a check or a reset of the pair p.
StepOfPair(p) ==
    /\ now' = now
    /\ result'.op \in {"hybrid"} \cup ResetOps
    /\ result'.identifier = p[1] /\ result'.resource = p[2]

\* C24: rate-limit state is keyed by the (identifier, resource) pair: a check
\* or a reset of one pair never changes what a later check of a different
\* pair returns, for all strings, those holding ':' included.
C24_PairsApart ==
    [][\A p, q \in Pairs :
          (p # q /\ StepOfPair(p)) =>
             \A use_db \in BOOLEAN :
                 WouldReturn(limits', rows', q, use_db) =
                     WouldReturn(limits, rows, q, use_db)]_vars


\* ------------------------------------- the database limiter after a reset
\* The rows of the pair of the last call.
ResultRows == RowsOf(result.identifier, result.resource)

\* C25: a DatabaseRateLimiter.is_allowed check of a pair that has no row
\* creates the row with count 1 and reset_at = now + window_seconds and
\* admits; DatabaseRateLimiter.reset_limit leaves the pair without a row, so
\* the check after it is such a first check.
C25_FirstCheckCreates ==
    [][/\ (now' = now /\ result'.op = "db"
              /\ RowsOf(result'.identifier, result'.resource) = {}) =>
             /\ result'.db_branch = "create"
             /\ result'.allowed /\ result'.retry_after = 0
             /\ Cardinality(ResultRows') = 1
             /\ \A r \in ResultRows' :
                    r.requests_count = 1 /\ r.reset_at = now + window_seconds
       /\ (result'.op = "reset_db" /\ result'.outcome = "returned"
              /\ result' # result) =>
             ResultRows' = {}]_vars

\* C25 witness: the check after a reset that deleted the row created the row
\* anew (rows leave the table by reset_limit only, and a window that merely
\* ran out is restarted in place).
C25_Witness ==
    /\ result.op = "db" /\ result.db_branch = "create" /\ result.at = now
    /\ result.allowed
    /\ Len(dbLog) >= 2
    /\ \A r \in ResultRows : r.requests_count = 1 /\ r.reset_at = now + window_seconds
    /\ ResultRows # {}


\* ------------------------------------------------- rejections are free
\* The instants at which a later check can be made.
Later == now..(MaxTime + MaxWindow)

\* What a check of the in-memory tracker made at time t would return.
MemAt(lim, identifier, resource, t) ==
    LET mem == MemIsAllowed(lim, identifier, resource, max_requests,
                            window_seconds, t)
    IN  [outcome |-> mem.outcome, allowed |-> mem.allowed,
         retry_after |-> mem.retry_after]

\* What a check of the database limiter made at time t would return.
DbAt(table, identifier, resource, t) ==
    {[allowed |-> db.allowed, retry_after |-> db.retry_after] :
        db \in {DbIsAllowed(table, rate_limit, identifier, resource,
                            max_requests, window_seconds, t) :
                   rate_limit \in Query(table, identifier, resource)}}

\* The step is a check the in-memory tracker rejected.
MemRejectionStep ==
    /\ now' = now /\ result'.op = "hybrid"
    /\ result'.outcome = "returned" /\ ~result'.mem_allowed

\* The step is a check the database limiter rejected.
DbRejectionStep == now' = now /\ result'.db_branch = "exceeded"

\* C26: a rejected check consumes no quota and extends no wait.  A check the
\* in-memory tracker rejects appends no timestamp, it only prunes aged-out
\* ones, and a check the database limiter rejects leaves the row's count and
\* reset_at as they were; after either, every later check of the pair by the
\* rejecting limiter returns what it would have returned without it.
C26_RejectionsAreFree ==
    [][LET i == result'.identifier
           r == result'.resource
           key == Key(i, r)
       IN  /\ MemRejectionStep =>
                 /\ key \in DOMAIN limits
                 /\ limits'[key].requests =
                        Prune(limits[key].requests, now - window_seconds)
                 /\ rows' = rows
                 /\ \A t \in Later :
                        MemAt(limits', i, r, t) = MemAt(limits, i, r, t)
           /\ DbRejectionStep =>
                 /\ rows' = rows
                 /\ \A t \in Later :
                        DbAt(rows', i, r, t) = DbAt(rows, i, r, t)]_vars

\* C26 witness: the tracker rejected a check, pruning an aged-out timestamp
\* on the way, and the check at the instant the rejection named is admitted.
C26_Witness ==
    /\ result.op = "hybrid" /\ result.at = now
    /\ result.outcome = "returned" /\ ~result.mem_allowed
    /\ result.mem_retry_after > 0
    /\ Len(StoredRequests) < Len(memLog[ResultKey])
    /\ MemAt(limits, result.identifier, result.resource,
             now + result.mem_retry_after).allowed


\* ------------------------------------------ the layers agree on admission
\* C27: in one process whose layers start without a record of the pair, with
\* every check made with use_db and the same max_requests >= 1 and window,
\* the database limiter never rejects a request the in-memory tracker has
\* just admitted: every hybrid rejection comes from the tracker.
C27_DbNeverRejects ==
    (result.op = "hybrid" /\ max_requests >= 1) =>
        /\ result.mem_allowed => result.db_allowed
        /\ ~result.allowed => ~result.mem_allowed


\* ------------------------------------------------ CacheManager.increment
\* The step is a call of increment that returned a number.
IncrementStep == now' = now /\ cres'.op = "increment" /\ ~cres'.raised

\* C28: the in-memory increment treats an expired entry as absent:
\* increment(k, amount) on an absent key or on one whose TTL has elapsed
\* returns amount and stores it with a fresh TTL; on a live numeric entry it
\* returns the old value plus amount.  The Redis backend counts an expired
\* key from zero in the same way.
C28_IncrementFromExpired ==
    [][IncrementStep =>
          LET k == cres'.key
              amount == cres'.arg.v
              store == RedisPurge(redis, now)
          IN  /\ cres'.kind = "value"
              /\ (~use_redis /\ ~MemLive(memory_cache, k, now)) =>
                     /\ cres'.value = Number(amount)
                     /\ memory_cache'[k] = [value |-> Number(amount),
                                            expires_at |-> now + cres'.ttl]
              /\ (~use_redis /\ MemLive(memory_cache, k, now)
                     /\ memory_cache[k].value.num) =>
                     cres'.value = Number(memory_cache[k].value.v + amount)
              /\ (use_redis /\ k \notin DOMAIN store) =>
                     cres'.value = Number(amount)]_vars


\* ---------------------------------------------------------- 'tate' replies
\* The step is an on_message of a 'tate' message that got as far as the
\* 'tate' pattern.
TateStep ==
    /\ now' = now /\ bot_out'.op = "on_message" /\ bot_out'.at = now
    /\ bot_out'.m.tate /\ ~bot_out'.m.cocobot

\* The author's recorded trigger is less than the cooldown old.
Recent(user) ==
    user \in DOMAIN tate_cooldowns /\ now - tate_cooldowns[user] < TateCooldown

ReminderStarts(h) == handlers[h].pc = "idle" /\ handlers'[h].pc = "sending"

\* The step ends an on_message that sent the reminder.
ReminderEnds(h) == handlers[h].pc = "sending" /\ handlers'[h].pc = "idle"

\* C30: over every sequence and interleaving of on_message invocations for
\* 'visa' messages in the visa channel, a user is sent the nationality
\* reminder at most once until an administrative reset for that user; the
\* first such message of a user not yet reminded does produce the reminder,
\* and the user is in reminded_users afterwards.
C30_RemindedAtMostOnce ==
    /\ [](\A user \in Users : reminders[user] <= 1)
    /\ [][\A h \in Handlers :
             /\ ReminderEnds(h) =>
                    /\ bot_out'.sent = <<"reminder">>
                    /\ handlers[h].author \in reminded_users'
             /\ (bot_out'.op = "awaiting" /\ bot_out' # bot_out) =>
                    \E h2 \in Handlers : ReminderStarts(h2)]_vars

====
